---- MODULE Spec2Model ----
(***************************************************************************)
(* A model of the TinyVG binary parser (src/src/parser.rs).                *)
(*                                                                         *)
(* The byte source is a finite sequence of bytes `input`; the reader's     *)
(* position is `bytes_read`.  Every reader of the parser is an operator    *)
(* that takes the parser (`self`, a record with the input and the fields   *)
(* of struct Parser) and a position and returns a result record            *)
(*     [st |-> "ok" | "err" | "panic", val |-> ..., pos |-> ...]           *)
(* where pos is the reader position after the call.  "err" is an           *)
(* Err(eyre::Error) return, "panic" an abnormal abort of the thread.       *)
(* Bind(r, K) is Rust's `?`: it hands an "ok" result to the rest of the    *)
(* function, K, and returns any other result as it is.                     *)
(*                                                                         *)
(* A u32 is represented by the set of positions of its one-bits            *)
(* (a subset of 0..31): TLC's integers are 32-bit signed and cannot hold   *)
(* values >= 2^31.  Bitwise or is set union, a left shift moves every      *)
(* position up and drops the positions above 31.                           *)
(*                                                                         *)
(* Rust's arithmetic overflow depends on the build: with overflow checks   *)
(* (the debug profile) `+` and `<<` panic on overflow, without them (the   *)
(* release profile) `+` wraps and `<<` masks the shift amount.  `build`    *)
(* is chosen nondeterministically in Init.                                 *)
(***************************************************************************)
EXTENDS Integers, Sequences, FiniteSets, TLC

VARIABLES
    input,       \* the bytes of the byte source
    build,       \* "debug" (overflow checks) or "release"
    bytes_read,  \* ByteCountReader::bytes_read
    parser,      \* the fields of struct Parser besides the reader
    file,        \* the image the caller holds (File), None before parse_header
    pc,          \* where the caller is
    result,      \* what the last call returned
    command_at,  \* history: the positions at which parse_inner called command()
    helper       \* render_helper::render: its position, output file and return

vars == <<input, build, bytes_read, parser, file, pc, result, command_at,
          helper>>

Builds == {"debug", "release"}

(***************************************************************************)
(* u32 arithmetic on bit sets                                              *)
(***************************************************************************)
Pow2(n) == 2 ^ n

\* `x as u32` for a value below 2^31: the set of its one-bits.
BitsOf(n) == {i \in 0..(IF n < 256 THEN 7 ELSE 30) : (n \div Pow2(i)) % 2 = 1}

\* The number a bit set without bit 31 stands for.
RECURSIVE ToNat(_)
ToNat(s) ==
    IF s = {} THEN 0
    ELSE LET i == CHOOSE i \in s : TRUE IN Pow2(i) + ToNat(s \ {i})

\* `i < count` for a loop index i (a small natural) and a u32 count.
U32Gt(count, i) == 31 \in count \/ ToNat(count) > i

\* u32 `x << k` for 0 <= k < 32: bits shifted past bit 31 are lost.
Shl(s, k) == {i + k : i \in s} \cap (0..31)

\* The smallest bit position not in s (s is not all ones).
LowestClear(s) == CHOOSE k \in 0..31 : k \notin s /\ \A j \in 0..(k - 1) : j \in s

\* Wrapping u32 `x + 1`.
WrappingInc(s) ==
    IF s = 0..31 THEN {}
    ELSE (s \ (0..(LowestClear(s) - 1))) \cup {LowestClear(s)}

(***************************************************************************)
(* Results                                                                 *)
(***************************************************************************)
Ok(v, p) == [st |-> "ok", val |-> v, pos |-> p]

Err(e, p) == [st |-> "err", val |-> e, pos |-> p]

Panic(e, p) == [st |-> "panic", val |-> e, pos |-> p]

The(S) == CHOOSE x \in S : TRUE

\* `let x = r?; K(x)`: r is evaluated once.
Bind(r, K(_)) == The({IF x.st # "ok" THEN x ELSE K(x) : x \in {r}})

\* `x + 1` on the u32 of an Ok result v, as in `self.read_var_uint()? + 1`:
\* on overflow the addition panics or wraps, by build.
PlusOne(self, v) ==
    IF v.val = 0..31 /\ self.build = "debug"
    THEN Panic("attempt to add with overflow", v.pos)
    ELSE Ok(WrappingInc(v.val), v.pos)

(***************************************************************************)
(* ByteCountReader and the fixed-width readers of byteorder                *)
(***************************************************************************)
\* read_exact of n bytes at pos: the bytes, or UnexpectedEof after the
\* bytes that were left have been consumed (and counted).
read_bytes_uncounted(self, pos, n) ==
    IF pos + n <= Len(self.input)
    THEN Ok(SubSeq(self.input, pos + 1, pos + n), pos + n)
    ELSE Err("failed to fill whole buffer", pos)

read_bytes(self, pos, n) ==
    IF pos + n <= Len(self.input)
    THEN Ok(SubSeq(self.input, pos + 1, pos + n), pos + n)
    ELSE Err("failed to fill whole buffer", Len(self.input))

read_u8(self, pos) ==
    Bind(read_bytes(self, pos, 1), LAMBDA r : Ok(r.val[1], r.pos))

\* The u32 whose little-endian bytes are bs (1, 2 or 4 of them).
LittleEndian(bs) ==
    UNION {{8 * (k - 1) + j : j \in BitsOf(bs[k])} : k \in 1..Len(bs)}

(***************************************************************************)
(* Parser::read_var_uint                                                   *)
(***************************************************************************)
\* The shift by 8 bits a group.
VarShift8(self, b, count, pos) ==
    IF 8 * count >= 32 /\ self.build = "debug"
    THEN Panic("attempt to shift left with overflow", pos)
    ELSE Ok(Shl(BitsOf(b) \cap (0..6), (8 * count) % 32), pos)

\* `(b & 0x7F) << (7 * count)`: a shift amount of 32 or more panics with
\* overflow checks and is taken modulo 32 without them.
VarShift(self, b, count, pos) ==
    IF 7 * count >= 32 /\ self.build = "debug"
    THEN Panic("attempt to shift left with overflow", pos)
    ELSE Ok(Shl(BitsOf(b) \cap (0..6), (7 * count) % 32), pos)

RECURSIVE var_uint_loop(_, _, _, _)
var_uint_loop(self, pos, res, count) ==
    Bind(read_u8(self, pos), LAMBDA b :
    Bind(VarShift(self, b.val, count, b.pos), LAMBDA sh :
    IF 7 \notin BitsOf(b.val)
    THEN Ok(res \cup sh.val, b.pos)
    ELSE var_uint_loop(self, b.pos, res \cup sh.val, count + 1)))

read_var_uint(self, pos) == var_uint_loop(self, pos, {}, 0)

(***************************************************************************)
(* Parser::new and the header readers                                      *)
(***************************************************************************)
\* The fields of struct Parser besides the reader, as Parser::new sets them.
NewParser ==
    [coordinate_range |-> "Default", color_count |-> {},
     color_encoding |-> "Rgb565", scale |-> 0]

\* The parser as the readers see it: the byte source, the build, the fields.
SelfOf(in, bld, p) ==
    [input |-> in, build |-> bld,
     coordinate_range |-> p.coordinate_range, color_count |-> p.color_count,
     color_encoding |-> p.color_encoding, scale |-> p.scale]

FieldsOf(self) ==
    [coordinate_range |-> self.coordinate_range, color_count |-> self.color_count,
     color_encoding |-> self.color_encoding, scale |-> self.scale]

\* magic_number that accepts a file in which either byte matches.
magic_number_either(self, pos) ==
    Bind(read_u8(self, pos), LAMBDA b0 :
    Bind(read_u8(self, b0.pos), LAMBDA b1 :
    IF b0.val = 114 \/ b1.val = 86
    THEN Ok("magic", b1.pos)
    ELSE Err("tinyvg file must begin with magic number 0x72 0x56", b1.pos)))

magic_number(self, pos) ==
    Bind(read_u8(self, pos), LAMBDA b0 :
    Bind(read_u8(self, b0.pos), LAMBDA b1 :
    IF b0.val = 114 /\ b1.val = 86
    THEN Ok("magic", b1.pos)
    ELSE Err("tinyvg file must begin with magic number 0x72 0x56", b1.pos)))

version(self, pos) == read_u8(self, pos)

\* A packed_struct field `bits = "lo..hi"` of a one-byte struct under
\* bit_numbering = "msb0": bit 0 is the most significant bit of the byte.
Msb0Field(x, lo, hi) == (x \div Pow2(8 - hi)) % Pow2(hi - lo)

\* The fields under bit_numbering = "lsb0".
ScaleAndFlagsLsb0(x) ==
    [scale |-> (x \div 16) % 16,
     color_encoding |-> (x \div 4) % 4,
     coordinate_range |-> x % 4]

ScaleAndFlags(x) ==
    [scale |-> Msb0Field(x, 4, 8),
     color_encoding |-> Msb0Field(x, 2, 4),
     coordinate_range |-> Msb0Field(x, 0, 2)]

\* scale_properties that takes the coordinate range 3 for Default.
scale_properties_any_range(self, pos) ==
    Bind(read_u8(self, pos), LAMBDA x :
    Bind(Ok(ScaleAndFlags(x.val), x.pos), LAMBDA scale_and_flags :
    IF scale_and_flags.val.color_encoding = 3
    THEN Err("custom color encodings are not supported", x.pos)
    ELSE Ok([scale |-> scale_and_flags.val.scale,
             color_encoding |->
                 CASE scale_and_flags.val.color_encoding = 0 -> "Rgba8888"
                   [] scale_and_flags.val.color_encoding = 1 -> "Rgb565"
                   [] scale_and_flags.val.color_encoding = 2 -> "RgbaF32",
             coordinate_range |->
                 CASE scale_and_flags.val.coordinate_range = 1 -> "Reduced"
                   [] scale_and_flags.val.coordinate_range = 2 -> "Enhanced"
                   [] OTHER -> "Default"],
            x.pos)))

scale_properties(self, pos) ==
    Bind(read_u8(self, pos), LAMBDA x :
    Bind(Ok(ScaleAndFlags(x.val), x.pos), LAMBDA scale_and_flags :
    IF scale_and_flags.val.coordinate_range = 3
    THEN Err("unrecognized coordinate type", x.pos)
    ELSE IF scale_and_flags.val.color_encoding = 3
    THEN Err("custom color encodings are not supported", x.pos)
    ELSE Ok([scale |-> scale_and_flags.val.scale,
             color_encoding |->
                 CASE scale_and_flags.val.color_encoding = 0 -> "Rgba8888"
                   [] scale_and_flags.val.color_encoding = 1 -> "Rgb565"
                   [] scale_and_flags.val.color_encoding = 2 -> "RgbaF32",
             coordinate_range |->
                 CASE scale_and_flags.val.coordinate_range = 0 -> "Default"
                   [] scale_and_flags.val.coordinate_range = 1 -> "Reduced"
                   [] scale_and_flags.val.coordinate_range = 2 -> "Enhanced"],
            x.pos)))

\* The widths of Reduced and Default taken for each other.
RangeBytesSwapped(coordinate_range) ==
    CASE coordinate_range = "Reduced" -> 2
      [] coordinate_range = "Default" -> 1
      [] coordinate_range = "Enhanced" -> 4

\* The number of bytes of a coordinate under a coordinate range.
RangeBytes(coordinate_range) ==
    CASE coordinate_range = "Reduced" -> 1
      [] coordinate_range = "Default" -> 2
      [] coordinate_range = "Enhanced" -> 4

read_with_coordinate_range(self, pos) ==
    Bind(read_bytes(self, pos, RangeBytes(self.coordinate_range)), LAMBDA r :
    Ok(LittleEndian(r.val), r.pos))

\* A result together with the parser's fields as the call leaves them.
WithSelf(r, self) ==
    The({[st |-> x.st, val |-> x.val, pos |-> x.pos, self |-> FieldsOf(self)] :
            x \in {r}})

\* Parser::header from `self.coordinate_range = ...` on; self1 is the
\* parser with the coordinate range of the flags byte.
header_body(self1, v, sp, pos) ==
    Bind(WithSelf(read_with_coordinate_range(self1, pos), self1), LAMBDA width :
    Bind(WithSelf(read_with_coordinate_range(self1, width.pos), self1), LAMBDA height :
    Bind(WithSelf(read_var_uint(self1, height.pos), self1), LAMBDA color_count :
    WithSelf(Ok([version |-> v,
                 scale |-> sp.scale,
                 color_encoding |-> sp.color_encoding,
                 coordinate_range |-> sp.coordinate_range,
                 width |-> width.val,
                 height |-> height.val,
                 color_count |-> color_count.val],
                color_count.pos),
             [self1 EXCEPT !.color_count = color_count.val,
                           !.color_encoding = sp.color_encoding,
                           !.scale = sp.scale]))))

\* header that reads width and height before it sets the coordinate range.
header_default_range(self, pos) ==
    Bind(WithSelf(magic_number(self, pos), self), LAMBDA m :
    Bind(WithSelf(version(self, m.pos), self), LAMBDA v :
    Bind(WithSelf(scale_properties(self, v.pos), self), LAMBDA sp :
    header_body(self, v.val, sp.val, sp.pos))))

header(self, pos) ==
    Bind(WithSelf(magic_number(self, pos), self), LAMBDA m :
    Bind(WithSelf(version(self, m.pos), self), LAMBDA v :
    Bind(WithSelf(scale_properties(self, v.pos), self), LAMBDA sp :
    header_body([self EXCEPT !.coordinate_range = sp.val.coordinate_range],
                v.val, sp.val, sp.pos))))

(***************************************************************************)
(* The color table                                                         *)
(***************************************************************************)
color_8888(self, pos) ==
    Bind(read_bytes(self, pos, 4), LAMBDA r :
    Ok([enc |-> "rgba8", ch |-> r.val], r.pos))

\* Four f32, each kept as the u32 of its four little-endian bytes.
color_f32(self, pos) ==
    Bind(read_bytes(self, pos, 16), LAMBDA r :
    Ok([enc |-> "rgba",
        ch |-> [k \in 1..4 |-> LittleEndian(SubSeq(r.val, 4 * k - 3, 4 * k))]],
       r.pos))

\* red, green and blue as the numerators over 31, 63 and 31.
color_565(self, pos) ==
    Bind(read_bytes(self, pos, 2), LAMBDA r :
    Bind(Ok(ToNat(LittleEndian(r.val)), r.pos), LAMBDA rgb :
    Ok([enc |-> "rgb",
        ch |-> <<rgb.val % 32, (rgb.val \div 32) % 64, (rgb.val \div 2048) % 32>>],
       r.pos)))

read_color(self, pos) ==
    CASE self.color_encoding = "Rgba8888" -> color_8888(self, pos)
      [] self.color_encoding = "RgbaF32" -> color_f32(self, pos)
      [] self.color_encoding = "Rgb565" -> color_565(self, pos)

\* `for _ in 0..self.color_count { colors.push(...) }`, from index i on.
RECURSIVE color_table_loop(_, _, _, _)
color_table_loop(self, pos, i, colors) ==
    IF ~U32Gt(self.color_count, i) THEN Ok(colors, pos)
    ELSE Bind(read_color(self, pos), LAMBDA c :
         color_table_loop(self, c.pos, i + 1, Append(colors, c.val)))

\* The loop over 1..color_count.
parse_color_table_from_one(self, pos) == color_table_loop(self, pos, 1, <<>>)

parse_color_table(self, pos) == color_table_loop(self, pos, 0, <<>>)

\* wrap_err: the error with a line of context before it.
WrapErr(r, context) ==
    The({IF x.st = "ok" THEN x ELSE [x EXCEPT !.val = <<context, x.val>>] :
            x \in {r}})

\* parse_header that goes on to drain the byte source into the trailer.
parse_header_body_drain(self1, h) ==
    Bind(WithSelf(WrapErr(parse_color_table(self1, h.pos),
                          "error parsing color table"), self1),
         LAMBDA color_table :
    WithSelf(Ok([header |-> h.val,
                 color_table |-> color_table.val,
                 commands |-> <<>>,
                 trailer |-> SubSeq(self1.input, color_table.pos + 1,
                                    Len(self1.input))],
                Len(self1.input)),
             self1))

\* Parser::parse_header, from the header on: self1 is the parser after
\* header().
parse_header_body(self1, h) ==
    Bind(WithSelf(WrapErr(parse_color_table(self1, h.pos),
                          "error parsing color table"), self1),
         LAMBDA color_table :
    WithSelf(Ok([header |-> h.val,
                 color_table |-> color_table.val,
                 commands |-> <<>>,
                 trailer |-> <<>>],
                color_table.pos),
             self1))

parse_header(self, pos) ==
    Bind(WrapErr(header(self, pos), "error parsing header"), LAMBDA h :
    parse_header_body(SelfOf(self.input, self.build, h.self), h))

(***************************************************************************)
(* Units and geometry                                                      *)
(***************************************************************************)
\* u32 `x >> 1`.
Shr1(s) == {i - 1 : i \in s \ {0}}

\* The f64 value (raw as f64) / (2^scale as f64), exactly: an odd (or zero)
\* mantissa m and the number e of binary places, the value being m / 2^e.
\* raw is a u32, so the value is never negative (neg).
RECURSIVE F64Ratio(_, _)
F64Ratio(raw, scale) ==
    IF raw = {} THEN [neg |-> FALSE, m |-> {}, e |-> 0]
    ELSE IF scale > 0 /\ 0 \notin raw THEN F64Ratio(Shr1(raw), scale - 1)
         ELSE [neg |-> FALSE, m |-> raw, e |-> scale]

\* read_unit that divides by 2^0, the scale of a new parser.
read_unit_unscaled(self, pos) ==
    Bind(read_with_coordinate_range(self, pos), LAMBDA raw :
    Ok(F64Ratio(raw.val, 0), raw.pos))

read_unit(self, pos) ==
    Bind(read_with_coordinate_range(self, pos), LAMBDA raw :
    Ok(F64Ratio(raw.val, self.scale), raw.pos))

point(self, pos) ==
    Bind(read_unit(self, pos), LAMBDA x :
    Bind(read_unit(self, x.pos), LAMBDA y :
    Ok([x |-> x.val, y |-> y.val], y.pos)))

rectangle(self, pos) ==
    Bind(read_unit(self, pos), LAMBDA x :
    Bind(read_unit(self, x.pos), LAMBDA y :
    Bind(read_unit(self, y.pos), LAMBDA width :
    Bind(read_unit(self, width.pos), LAMBDA height :
    Ok([x |-> x.val, y |-> y.val, width |-> width.val, height |-> height.val],
       height.pos)))))

line(self, pos) ==
    Bind(point(self, pos), LAMBDA p0 :
    Bind(point(self, p0.pos), LAMBDA p1 :
    Ok([p0 |-> p0.val, p1 |-> p1.val], p1.pos)))

(***************************************************************************)
(* Styles                                                                  *)
(***************************************************************************)
\* StyleVariant::try_from(u8), as a result at position pos.
StyleVariant(value, pos) ==
    CASE value = 0 -> Ok("FlatColor", pos)
      [] value = 1 -> Ok("LinearGradient", pos)
      [] value = 2 -> Ok("RadialGradient", pos)
      [] OTHER -> Err("unsupported primary style", pos)

\* The two gradient arms of Parser::style, which differ in the tag alone.
gradient(self, pos, variant) ==
    Bind(point(self, pos), LAMBDA point_0 :
    Bind(point(self, point_0.pos), LAMBDA point_1 :
    Bind(read_var_uint(self, point_1.pos), LAMBDA color_index_0 :
    Bind(read_var_uint(self, color_index_0.pos), LAMBDA color_index_1 :
    Ok([style |-> variant,
        point_0 |-> point_0.val, point_1 |-> point_1.val,
        color_index_0 |-> color_index_0.val,
        color_index_1 |-> color_index_1.val],
       color_index_1.pos)))))

style(self, pos, variant) ==
    IF variant = "FlatColor"
    THEN Bind(read_var_uint(self, pos), LAMBDA color_index :
         Ok([style |-> "FlatColor", color_index |-> color_index.val],
            color_index.pos))
    ELSE gradient(self, pos, variant)

(***************************************************************************)
(* Item lists                                                              *)
(***************************************************************************)
\* The reader `f` handed to count_and_style_command and outline_fill_cmd.
read_item(self, pos, f) ==
    CASE f = "point" -> point(self, pos)
      [] f = "rectangle" -> rectangle(self, pos)
      [] f = "line" -> line(self, pos)

\* `for _ in 0..count { items.push(f(self)?) }`, from index i on.
RECURSIVE items_loop(_, _, _, _, _, _)
items_loop(self, pos, count, f, i, items) ==
    IF ~U32Gt(count, i) THEN Ok(items, pos)
    ELSE Bind(read_item(self, pos, f), LAMBDA it :
         items_loop(self, it.pos, count, f, i + 1, Append(items, it.val)))

\* varint is the count prefix as it was read, a history value.
count_and_style_command(self, pos, variant, f) ==
    Bind(read_var_uint(self, pos), LAMBDA v :
    Bind(PlusOne(self, v), LAMBDA count :
    Bind(style(self, count.pos, variant), LAMBDA st :
    Bind(items_loop(self, st.pos, count.val, f, 0, <<>>), LAMBDA items :
    Ok([style |-> st.val, items |-> items.val, varint |-> v.val], items.pos)))))

(***************************************************************************)
(* Paths                                                                   *)
(***************************************************************************)
\* k calls of read_unit in a row, the units as a sequence.
RECURSIVE units(_, _, _, _)
units(self, pos, k, acc) ==
    IF k = 0 THEN Ok(acc, pos)
    ELSE Bind(read_unit(self, pos), LAMBDA u :
         units(self, u.pos, k - 1, Append(acc, u.val)))

arc_header(self, pos) ==
    Bind(read_u8(self, pos), LAMBDA raw :
    Ok([large |-> 7 \in BitsOf(raw.val),
        sweep |-> IF 6 \in BitsOf(raw.val) THEN "Left" ELSE "Right"],
       raw.pos))

\* An Option: None is the empty sequence, Some(x) the sequence of x alone.
None == <<>>

Some(x) == <<x>>

\* The line width read when bit 4 of the tag byte is set.
tag_line_width_bit4(self, raw) ==
    IF 4 \in BitsOf(raw.val)
    THEN Bind(read_unit(self, raw.pos), LAMBDA w : Ok(Some(w.val), w.pos))
    ELSE Ok(None, raw.pos)

\* The line width of a tag byte raw: a unit if bit 3 is set.
tag_line_width(self, raw) ==
    IF 3 \in BitsOf(raw.val)
    THEN Bind(read_unit(self, raw.pos), LAMBDA w : Ok(Some(w.val), w.pos))
    ELSE Ok(None, raw.pos)

segment_command_tag(self, pos) ==
    Bind(read_u8(self, pos), LAMBDA raw :
    Bind(tag_line_width(self, raw), LAMBDA line_width :
    Ok([instruction |->
            CASE raw.val % 8 = 0 -> "Line"
              [] raw.val % 8 = 1 -> "HorizontalLine"
              [] raw.val % 8 = 2 -> "VerticalLine"
              [] raw.val % 8 = 3 -> "CubicBezier"
              [] raw.val % 8 = 4 -> "ArcCircle"
              [] raw.val % 8 = 5 -> "ArcEllipse"
              [] raw.val % 8 = 6 -> "ClosePath"
              [] raw.val % 8 = 7 -> "QuadraticBezier",
        line_width |-> line_width.val],
       line_width.pos)))

\* segment_command_arc_circle (radius, target) and
\* segment_command_arc_ellipse (radius_x, radius_y, rotation, target).
segment_command_arc(self, pos, instruction) ==
    Bind(arc_header(self, pos), LAMBDA h :
    Bind(units(self, h.pos, IF instruction = "ArcCircle" THEN 3 ELSE 5, <<>>),
         LAMBDA b :
    Ok([kind |-> instruction, large |-> h.val.large, sweep |-> h.val.sweep,
        body |-> b.val], b.pos)))

\* The units of the body of the other segment commands: the coordinates of
\* their points, in the order read.
BodyUnits(instruction) ==
    CASE instruction = "Line" -> 2
      [] instruction = "HorizontalLine" -> 1
      [] instruction = "VerticalLine" -> 1
      [] instruction = "CubicBezier" -> 6
      [] instruction = "ClosePath" -> 0
      [] instruction = "QuadraticBezier" -> 4

\* The `match tag.instruction` of Parser::segment.
segment_command_kind(self, pos, instruction) ==
    IF instruction \in {"ArcCircle", "ArcEllipse"}
    THEN segment_command_arc(self, pos, instruction)
    ELSE Bind(units(self, pos, BodyUnits(instruction), <<>>), LAMBDA b :
         Ok([kind |-> instruction, body |-> b.val], b.pos))

\* `for _ in 0..segment_size { ... commands.push(...) }`, from index i on.
RECURSIVE segment_loop(_, _, _, _, _)
segment_loop(self, pos, segment_size, i, commands) ==
    IF ~U32Gt(segment_size, i) THEN Ok(commands, pos)
    ELSE Bind(segment_command_tag(self, pos), LAMBDA tag :
         Bind(segment_command_kind(self, tag.pos, tag.val.instruction), LAMBDA kind :
         segment_loop(self, kind.pos, segment_size, i + 1,
                      Append(commands,
                             [kind |-> kind.val,
                              line_width |-> tag.val.line_width]))))

segment(self, pos, segment_size) ==
    Bind(point(self, pos), LAMBDA start :
    Bind(segment_loop(self, start.pos, segment_size, 0, <<>>), LAMBDA commands :
    Ok([start |-> start.val, commands |-> commands.val], commands.pos)))

\* The first loop of read_path: `segment_lengths.push(read_var_uint()? + 1)`.
\* Each entry keeps, beside the length pushed (len), the varint it was
\* computed from (varint): a history value the code does not keep.
RECURSIVE segment_lengths_loop(_, _, _, _, _)
segment_lengths_loop(self, pos, count, i, segment_lengths) ==
    IF ~U32Gt(count, i) THEN Ok(segment_lengths, pos)
    ELSE Bind(read_var_uint(self, pos), LAMBDA v :
         Bind(PlusOne(self, v), LAMBDA n :
         segment_lengths_loop(self, n.pos, count, i + 1,
                              Append(segment_lengths,
                                     [len |-> n.val, varint |-> v.val]))))

\* The second loop of read_path: `items.push(segment(segment_lengths[i])?)`.
\* length_varint is the history value of the segment's length prefix; it is
\* not a field of struct Segment.
RECURSIVE segments_loop(_, _, _, _, _, _)
segments_loop(self, pos, count, segment_lengths, i, items) ==
    IF ~U32Gt(count, i) THEN Ok(items, pos)
    ELSE Bind(segment(self, pos, segment_lengths[i + 1].len), LAMBDA sg :
         segments_loop(self, sg.pos, count, segment_lengths, i + 1,
                       Append(items,
                              [start |-> sg.val.start,
                               commands |-> sg.val.commands,
                               length_varint |-> segment_lengths[i + 1].varint])))

read_path(self, pos, count) ==
    Bind(segment_lengths_loop(self, pos, count, 0, <<>>), LAMBDA segment_lengths :
    segments_loop(self, segment_lengths.pos, count, segment_lengths.val, 0, <<>>))

(***************************************************************************)
(* Commands.  Every command record carries `wire`, a history value that is *)
(* not part of enum Command: the command index read from the wire and the  *)
(* count prefix as it was read (the varint, or the u6), before any `+ 1`.  *)
(***************************************************************************)
\* The two bits taken from the low end of the byte.
u6_u2_low(self, pos) ==
    Bind(read_u8(self, pos), LAMBDA byte :
    Ok([u6 |-> (byte.val \div 4) % 64, u2 |-> byte.val % 4], byte.pos))

\* u6_u2 that reads the end of the input as the byte 0.
u6_u2_eof_zero(self, pos) ==
    IF pos >= Len(self.input) THEN Ok([u6 |-> 0, u2 |-> 0], pos)
    ELSE Bind(read_u8(self, pos), LAMBDA byte :
         Ok([u6 |-> byte.val % 64, u2 |-> (byte.val \div 64) % 4], byte.pos))

u6_u2(self, pos) ==
    Bind(read_u8(self, pos), LAMBDA byte :
    Ok([u6 |-> byte.val % 64, u2 |-> (byte.val \div 64) % 4], byte.pos))

Wire(index, count) == [index |-> index, count |-> count]

\* fill_polygon (1) and fill_rectangles (2).
fill_items(self, pos, style_variant, index) ==
    Bind(count_and_style_command(self, pos, style_variant,
                                 IF index = 1 THEN "point" ELSE "rectangle"),
         LAMBDA r :
    Ok([cmd |-> IF index = 1 THEN "FillPolygon" ELSE "FillRectangles",
        fill_style |-> r.val.style,
        items |-> r.val.items,
        outline |-> None,
        wire |-> Wire(index, r.val.varint)], r.pos))

fill_path(self, pos, style_variant) ==
    Bind(read_var_uint(self, pos), LAMBDA v :
    Bind(PlusOne(self, v), LAMBDA count :
    Bind(style(self, count.pos, style_variant), LAMBDA fill_style :
    Bind(read_path(self, fill_style.pos, count.val), LAMBDA path :
    Ok([cmd |-> "FillPath",
        fill_style |-> fill_style.val,
        path |-> path.val,
        outline |-> None,
        wire |-> Wire(3, v.val)], path.pos)))))

\* The common opening of draw_lines, draw_line_loop, draw_line_strip and
\* draw_line_path: count, line_style, line_width.
line_prefix(self, pos, style_variant) ==
    Bind(read_var_uint(self, pos), LAMBDA v :
    Bind(PlusOne(self, v), LAMBDA count :
    Bind(style(self, count.pos, style_variant), LAMBDA line_style :
    Bind(read_unit(self, line_style.pos), LAMBDA line_width :
    Ok([count |-> count.val, varint |-> v.val,
        line_style |-> line_style.val,
        line_width |-> line_width.val], line_width.pos)))))

draw_lines(self, pos, style_variant) ==
    Bind(line_prefix(self, pos, style_variant), LAMBDA p :
    Bind(items_loop(self, p.pos, p.val.count, "line", 0, <<>>), LAMBDA lines :
    Ok([cmd |-> "DrawLines",
        line_style |-> p.val.line_style,
        line_width |-> p.val.line_width,
        items |-> lines.val,
        wire |-> Wire(4, p.val.varint)], lines.pos)))

\* close_path set for the strip and clear for the loop.
draw_line_points_swapped(self, pos, style_variant, index) ==
    Bind(line_prefix(self, pos, style_variant), LAMBDA p :
    Bind(items_loop(self, p.pos, p.val.count, "point", 0, <<>>), LAMBDA points :
    Ok([cmd |-> "DrawLineLoop",
        line_style |-> p.val.line_style,
        line_width |-> p.val.line_width,
        close_path |-> (index = 6),
        items |-> points.val,
        wire |-> Wire(index, p.val.varint)], points.pos)))

\* draw_line_loop (5, close_path: true) and draw_line_strip (6, false).
draw_line_points(self, pos, style_variant, index) ==
    Bind(line_prefix(self, pos, style_variant), LAMBDA p :
    Bind(items_loop(self, p.pos, p.val.count, "point", 0, <<>>), LAMBDA points :
    Ok([cmd |-> "DrawLineLoop",
        line_style |-> p.val.line_style,
        line_width |-> p.val.line_width,
        close_path |-> (index = 5),
        items |-> points.val,
        wire |-> Wire(index, p.val.varint)], points.pos)))

draw_line_path(self, pos, style_variant) ==
    Bind(line_prefix(self, pos, style_variant), LAMBDA p :
    Bind(read_path(self, p.pos, p.val.count), LAMBDA path :
    Ok([cmd |-> "DrawLinePath",
        line_style |-> p.val.line_style,
        line_width |-> p.val.line_width,
        path |-> path.val,
        wire |-> Wire(7, p.val.varint)], path.pos)))

\* The common opening of outline_fill_cmd and outline_fill_path:
\* u6/u2 byte, fill_style, line_style, line_width.
outline_prefix(self, pos, primary_style) ==
    Bind(u6_u2(self, pos), LAMBDA b :
    Bind(StyleVariant(b.val.u2, b.pos), LAMBDA secondary_style :
    Bind(style(self, b.pos, primary_style), LAMBDA fill_style :
    Bind(style(self, fill_style.pos, secondary_style.val), LAMBDA line_style :
    Bind(read_unit(self, line_style.pos), LAMBDA line_width :
    Ok([segment_count |-> b.val.u6,
        fill_style |-> fill_style.val,
        outline |-> [line_style |-> line_style.val,
                     line_width |-> line_width.val]],
       line_width.pos))))))

\* outline_fill_polygon (8) and outline_fill_rectangles (9), through
\* outline_fill_cmd: `for _ in 0..(segment_count + 1)`.
outline_fill_items(self, pos, primary_style, index) ==
    Bind(outline_prefix(self, pos, primary_style), LAMBDA p :
    Bind(items_loop(self, p.pos, BitsOf(p.val.segment_count + 1),
                    IF index = 8 THEN "point" ELSE "rectangle", 0, <<>>),
         LAMBDA items :
    Ok([cmd |-> IF index = 8 THEN "FillPolygon" ELSE "FillRectangles",
        fill_style |-> p.val.fill_style,
        items |-> items.val,
        outline |-> Some(p.val.outline),
        wire |-> Wire(index, BitsOf(p.val.segment_count))], items.pos)))

\* outline_fill_path (10): `read_path(segment_count as u32)`.
outline_fill_path(self, pos, primary_style) ==
    Bind(outline_prefix(self, pos, primary_style), LAMBDA p :
    Bind(read_path(self, p.pos, BitsOf(p.val.segment_count)), LAMBDA path :
    Ok([cmd |-> "FillPath",
        fill_style |-> p.val.fill_style,
        path |-> path.val,
        outline |-> Some(p.val.outline),
        wire |-> Wire(10, BitsOf(p.val.segment_count))], path.pos)))

\* The `match command_index` of Parser::command for an index other than 0.
command_body(self, pos, command_index, primary_style) ==
    CASE command_index \in {1, 2} -> fill_items(self, pos, primary_style, command_index)
      [] command_index = 3 -> fill_path(self, pos, primary_style)
      [] command_index = 4 -> draw_lines(self, pos, primary_style)
      [] command_index \in {5, 6} ->
             draw_line_points(self, pos, primary_style, command_index)
      [] command_index = 7 -> draw_line_path(self, pos, primary_style)
      [] command_index \in {8, 9} ->
             outline_fill_items(self, pos, primary_style, command_index)
      [] command_index = 10 -> outline_fill_path(self, pos, primary_style)
      [] OTHER -> Err("unsupported command type", pos)

\* Parser::command: Ok(None) at the end of the stream, Ok(Some(command)).
command(self, pos) ==
    Bind(u6_u2(self, pos), LAMBDA b :
    Bind(StyleVariant(b.val.u2, b.pos), LAMBDA primary_style :
    IF b.val.u6 = 0 THEN Ok(None, b.pos)
    ELSE Bind(command_body(self, b.pos, b.val.u6, primary_style.val), LAMBDA c :
         Ok(Some(c.val), c.pos))))

(***************************************************************************)
(* The facade: parse_header, then parse_commands, whose loop (parse_inner) *)
(* takes one step per call of command().                                   *)
(***************************************************************************)
\* read_to_end that loses the first byte of the rest.
read_to_end_skip(self, pos) ==
    Ok(SubSeq(self.input, pos + 2, Len(self.input)), Len(self.input))

\* `self.reader.read_to_end(&mut file.trailer)`: the bytes from pos on.
read_to_end(self, pos) ==
    Ok(SubSeq(self.input, pos + 1, Len(self.input)), Len(self.input))

\* The wrap_err_with of parse_commands around an error of parse_inner.
ParseCommandsError(e, n) == <<"parsing failed after reading", n, e>>

Self == SelfOf(input, build, parser)

ParseHeader ==
    /\ pc = "new"
    /\ \E r \in {parse_header(Self, bytes_read)} :
           /\ bytes_read' = r.pos
           /\ parser' = r.self
           /\ file' = IF r.st = "ok" THEN r.val ELSE file
           /\ result' = IF r.st = "ok" THEN [st |-> "ok"]
                        ELSE [st |-> r.st, error |-> r.val]
           /\ pc' = CASE r.st = "ok" -> "header_done"
                      [] r.st = "err" -> "header_failed"
                      [] r.st = "panic" -> "panicked"
    /\ UNCHANGED <<input, build, command_at, helper>>

\* The loop that pushes what it has of a command that failed.
ParseCommandKeepPartial ==
    /\ pc \in {"header_done", "commands"}
    /\ \E r \in {command(Self, bytes_read)} :
           /\ ~(r.st = "ok" /\ r.val = None)
           /\ bytes_read' = r.pos
           /\ command_at' = Append(command_at, bytes_read)
           /\ file' = [file EXCEPT !.commands =
                           Append(@, IF r.st = "ok" THEN r.val[1]
                                     ELSE [cmd |-> "partial",
                                           wire |-> Wire(0, {})])]
           /\ result' = IF r.st = "ok" THEN result
                        ELSE [st |-> r.st,
                              error |-> ParseCommandsError(
                                            <<"error parsing command", r.val>>, r.pos)]
           /\ pc' = CASE r.st = "ok" -> "commands"
                      [] r.st = "err" -> "commands_failed"
                      [] r.st = "panic" -> "panicked"
    /\ UNCHANGED <<input, build, parser, helper>>

\* One iteration of the `while let` of parse_inner that yields a command,
\* or in which command() fails: parse_commands returns the wrapped error.
ParseCommand ==
    /\ pc \in {"header_done", "commands"}
    /\ \E r \in {command(Self, bytes_read)} :
           /\ ~(r.st = "ok" /\ r.val = None)
           /\ bytes_read' = r.pos
           /\ command_at' = Append(command_at, bytes_read)
           /\ file' = IF r.st = "ok"
                      THEN [file EXCEPT !.commands = Append(@, r.val[1])]
                      ELSE file
           /\ result' = IF r.st = "ok" THEN result
                        ELSE [st |-> r.st,
                              error |-> ParseCommandsError(
                                            <<"error parsing command", r.val>>, r.pos)]
           /\ pc' = CASE r.st = "ok" -> "commands"
                      [] r.st = "err" -> "commands_failed"
                      [] r.st = "panic" -> "panicked"
    /\ UNCHANGED <<input, build, parser, helper>>

\* The iteration in which command() returns None: the loop ends, the rest
\* of the input is drained into the trailer and parse_commands returns Ok.
EndOfCommands ==
    /\ pc \in {"header_done", "commands"}
    /\ \E r \in {command(Self, bytes_read)} :
           /\ r.st = "ok" /\ r.val = None
           /\ \E t \in {read_to_end(Self, r.pos)} :
                  /\ bytes_read' = t.pos
                  /\ file' = [file EXCEPT !.trailer = @ \o t.val]
           /\ command_at' = Append(command_at, bytes_read)
           /\ result' = [st |-> "ok"]
           /\ pc' = "done"
    /\ UNCHANGED <<input, build, parser, helper>>

(***************************************************************************)
(* The renderer (render.rs) as far as its outcome goes, and the positions  *)
(* of render_helper::render                                                *)
(***************************************************************************)
\* File::color: the color of an index, an error if the table is shorter.
\* drawn is the number of commands drawn before.
color(f, index, drawn) ==
    IF 31 \notin index /\ ToNat(index) < Len(f.color_table)
    THEN Ok(f.color_table[ToNat(index) + 1], drawn)
    ELSE Err(<<"file has colors but tried to get index",
               Len(f.color_table), index>>, drawn)

\* File::brush: one color of a flat style, two of a gradient.
brush(f, st, drawn) ==
    IF st.style = "FlatColor"
    THEN color(f, st.color_index, drawn)
    ELSE Bind(color(f, st.color_index_0, drawn), LAMBDA c :
              color(f, st.color_index_1, drawn))

\* File::outline_style: the brush of the line style, if there is one.
outline_style(f, o, drawn) ==
    IF o = None THEN Ok(None, drawn) ELSE brush(f, o[1].line_style, drawn)

\* One iteration of the loop of draw: the brushes, then `polygon[0]` and
\* `points[0]`, which panic on an empty list.
draw_command(f, c, drawn) ==
    IF c.cmd \in {"FillPath", "FillRectangles", "FillPolygon"}
    THEN Bind(brush(f, c.fill_style, drawn), LAMBDA b :
         Bind(outline_style(f, c.outline, drawn), LAMBDA l :
         IF c.cmd = "FillPolygon" /\ c.items = <<>>
         THEN Panic("index out of bounds", drawn)
         ELSE Ok(c, drawn + 1)))
    ELSE Bind(brush(f, c.line_style, drawn), LAMBDA b :
         IF c.cmd = "DrawLineLoop" /\ c.items = <<>>
         THEN Panic("index out of bounds", drawn)
         ELSE Ok(c, drawn + 1))

\* draw: the commands in order, up to the first that fails.
RECURSIVE draw_loop(_, _)
draw_loop(f, drawn) ==
    IF drawn = Len(f.commands)
    THEN Ok(drawn, drawn)
    ELSE Bind(draw_command(f, f.commands[drawn + 1], drawn), LAMBDA r :
              draw_loop(f, r.pos))

draw(f) == draw_loop(f, 0)

\* The outcomes of the surface and of the writer: both work, the surface
\* cannot be created, or the writer fails.
IoOutcomes == {"ok", "surface", "write"}

\* What has been drawn of image f: its first `drawn` commands.
Drawn(f, drawn) ==
    [header |-> f.header, color_table |-> f.color_table,
     commands |-> SubSeq(f.commands, 1, drawn)]

\* render (render_png): the surface, draw, write_to_png, then the result
\* of draw. png is what the writer has received.
render(f, io) ==
    IF io = "surface"
    THEN [st |-> "err", val |-> "failed to create cairo surface", png |-> None]
    ELSE The({
        CASE d.st = "panic" -> [st |-> "panic", val |-> d.val, png |-> None]
          [] d.st # "panic" /\ io = "write" ->
                [st |-> "err", val |-> "write_to_png", png |-> None]
          [] d.st = "err" /\ io = "ok" ->
                [st |-> "err", val |-> <<"failed to draw tinyvg file", d.val>>,
                 png |-> Some(Drawn(f, d.pos))]
          [] d.st = "ok" /\ io = "ok" ->
                [st |-> "ok", val |-> None, png |-> Some(Drawn(f, d.pos))]
        : d \in {draw(f)}})

\* The helper before it has done anything: no output file, no return.
NoHelper == [at |-> "decoding", out |-> "none", png |-> None, ret |-> None]

\* The return of the helper with error e of the call named by from.
HelperErr(from, e) == Some([st |-> "err", from |-> from, error |-> e])

(***************************************************************************)
(* Inputs                                                                  *)
(***************************************************************************)
MaxCommands == 2

MaxCut == 1

MaxColors == 2

MaxVarintLen == 6

RECURSIVE Concat(_)
Concat(ss) == IF ss = <<>> THEN <<>> ELSE Head(ss) \o Concat(Tail(ss))

\* s without its last k bytes.
DropLast(s, k) == SubSeq(s, 1, IF Len(s) >= k THEN Len(s) - k ELSE 0)

\* 72 56, version 1, flags 0x41 (Reduced coordinates, Rgba8888, scale 1),
\* width 16, height 16, one color.
ImageHeader == <<114, 86, 1, 65, 16, 16, 1, 255, 0, 0, 255>>

\* Encoded commands, well-formed and not; a coordinate is one byte.
Pieces ==
    { <<1, 0, 0, 2, 4>>,                        \* FillPolygon, flat 0, 1 point
      <<1, 0, 1, 2, 4>>,                        \* ... color index 1
      <<66, 0, 2, 2, 4, 4, 0, 0, 0, 0, 2, 2>>,  \* FillRectangles, linear gradient
      <<130, 0, 2, 2, 4, 4, 0, 1, 0, 0, 2, 2>>, \* ... radial, second index 1
      <<3, 0, 0, 0, 2, 4, 6>>,                  \* FillPath, 1 segment of 1
      <<3, 1, 0, 1, 0, 2, 4, 6, 1, 6, 2, 4, 22>>,  \* FillPath, segments of 2 and 1
      <<3, 0, 0, 255, 255, 255, 255, 15, 2, 4>>,   \* ... length varint 2^32 - 1
      <<4, 0, 0, 3, 2, 4, 4, 2>>,               \* DrawLines, 1 line
      <<5, 1, 0, 3, 2, 4, 4, 2>>,               \* DrawLineLoop, 2 points
      <<6, 0, 0, 3, 2, 4>>,                     \* DrawLineStrip, 1 point
      <<7, 0, 0, 3, 0, 2, 4, 11, 3, 1, 2, 3, 4, 5, 6>>,  \* DrawLinePath, tag 0x0B
      <<8, 1, 0, 0, 3, 2, 4, 4, 2>>,            \* OutlineFillPolygon, u6 = 1
      <<9, 0, 0, 0, 3, 0, 0, 2, 2>>,            \* OutlineFillRectangles, u6 = 0
      <<10, 1, 0, 0, 3, 0, 2, 4, 6>>,           \* OutlineFillPath, u6 = 1
      <<10, 0, 0, 0, 3>>,                       \* OutlineFillPath, u6 = 0
      <<8, 0, 0, 0, 7, 2, 4>>,                  \* OutlineFillPolygon, width 7
      <<9, 64, 0, 2, 2, 4, 4, 0, 0, 5, 0, 0, 2, 2>>,  \* ... gradient outline
      <<1, 127, 0, 2, 4>>,                      \* FillPolygon, count 128
      <<1, 255, 255, 255, 255, 15, 0>>,         \* FillPolygon, count varint 2^32 - 1
      <<1, 128, 128, 128, 128, 128, 0, 0, 2, 4>>,  \* FillPolygon, 6-byte varint
      <<11>>,                                   \* command index 11
      <<193>> }                                 \* FillPolygon, primary style 3

\* The commands that may follow the first one.
FollowPieces ==
    { <<1, 0, 0, 2, 4>>,
      <<3, 0, 0, 0, 2, 4, 6>>,
      <<6, 0, 1, 3, 2, 4>>,
      <<10, 1, 0, 0, 3, 0, 2, 4, 6>> }

RECURSIVE FollowSeqs(_)
FollowSeqs(n) ==
    IF n = 0 THEN {<<>>}
    ELSE {<<>>} \cup {p \o t : p \in FollowPieces, t \in FollowSeqs(n - 1)}

CommandStreams ==
    {<<>>} \cup
    (IF MaxCommands = 0 THEN {}
     ELSE {p \o t : p \in Pieces, t \in FollowSeqs(MaxCommands - 1)})

\* The end of the command stream: command index 0 under each primary
\* style, or no end at all.
Terminators == {<<0>>, <<64>>, <<128>>, <<192>>, <<>>}

Trailers == {<<>>, <<0>>, <<1, 0>>}

\* The two images of the format description: a header without colors and
\* commands; a header with one color, the command byte 0x42 and nine bytes.
ScenarioA == <<114, 86, 1, 64, 16, 16, 0, 0>>

ScenarioB ==
    <<114, 86, 1, 66, 32, 32, 1, 255, 0, 0, 255, 66, 0, 0, 0, 0, 32, 0, 32, 0, 0>>

Inputs ==
    {DropLast(ImageHeader \o c \o t \o tr, cut) :
        c \in CommandStreams, t \in Terminators, tr \in Trailers, cut \in 0..MaxCut}
    \cup {DropLast(s, cut) : s \in {ScenarioA, ScenarioB}, cut \in 0..MaxCut}

\* Header inputs: magic, version 1, a flags byte b, nine bytes cc (width,
\* height and a one-byte color count under every coordinate range), then
\* bytes for the colors; cut to n bytes.
ColorBytes == [i \in 1..(16 * MaxColors) |-> (7 * i) % 256]

HeaderInput(b, cc, n) ==
    SubSeq(<<114, 86, 1, b>> \o [i \in 1..9 |-> cc] \o ColorBytes, 1, n)

\* Flags bytes of each coordinate range and color encoding, the two
\* rejected values among them.
FlagSamples == {0, 65, 130, 16, 32, 48, 192}

\* Every flags byte on an input of full length, the samples on every prefix.
HeaderInputs ==
    {HeaderInput(b, cc, 13 + 16 * MaxColors) : b \in 0..255, cc \in 0..MaxColors}
    \cup
    {HeaderInput(b, cc, n) :
        b \in FlagSamples, cc \in 0..MaxColors, n \in 0..(13 + 16 * MaxColors)}

\* The 7-bit group k of a u32 (k = 4 is the top group, of 4 bits).
Group(v, k) == ToNat({i - 7 * k : i \in {j \in v : 7 * k <= j /\ j < 7 * k + 7}})

\* The number of groups of the shortest encoding of v.
Groups(v) == IF v = {} THEN 1 ELSE 1 + (CHOOSE k \in 0..4 :
                 Group(v, k) # 0 /\ \A j \in (k + 1)..4 : Group(v, j) = 0)

\* The varint encoding of v: 7-bit groups, least significant first, the
\* continuation bit (0x80) on every byte but the last.
Encode(v) ==
    [k \in 1..Groups(v) |-> Group(v, k - 1) + (IF k < Groups(v) THEN 128 ELSE 0)]

\* u32 values by their groups, among them 0, 300 = <<44, 2>> and 2^32 - 1.
VarintValues ==
    {UNION {Shl(BitsOf(g[k]), 7 * (k - 1)) : k \in 1..5} :
        g \in {0, 1, 44, 127} \X {0, 2, 127} \X {0, 127} \X {0, 1, 127} \X {0, 1, 8, 15}}

VarintBytes == {0, 16, 128, 255}

RECURSIVE ByteSeqs(_)
ByteSeqs(n) ==
    IF n = 0 THEN {<<>>}
    ELSE {<<>>} \cup {<<b>> \o t : b \in VarintBytes, t \in ByteSeqs(n - 1)}

\* The values with their encodings.
Encodings == {<<v, Encode(v)>> : v \in VarintValues}

VarintInputs ==
    ByteSeqs(MaxVarintLen) \cup {e[2] \o t : e \in Encodings, t \in {<<>>, <<129>>}}

\* Inputs for the header fields and the unit reader: magic, version 1, a
\* flags byte of every scale and coordinate range, width and height of the
\* size of the range, color count 0, then up to four bytes.
UnitFlags == {64 * r + s : r \in 0..2, s \in 0..15}

UnitBytes == {0, 16, 255}

UnitTails == UNION {[1..n -> UnitBytes] : n \in 0..RangeBytes("Enhanced")}

\* Four bytes of width and four of height.
Dimensions == {<<1, 2, 3, 4, 32, 1, 0, 128>>, <<16, 0, 0, 0, 255, 255, 255, 255>>}

\* The number of bytes of a coordinate under the flags byte b.
FlagBytes(b) ==
    CASE (b \div 64) % 4 = 0 -> 2
      [] (b \div 64) % 4 = 1 -> 1
      [] (b \div 64) % 4 = 2 -> 4
      [] OTHER -> 0

ReaderInput(b, d, u) ==
    <<114, 86, 1, b>> \o SubSeq(d, 1, FlagBytes(b))
        \o SubSeq(d, 5, 4 + FlagBytes(b)) \o <<0>> \o u

\* Inputs of every first and second byte among 0x72, 0x56 and 0, alone and
\* before the rest of a header.
MagicInputs ==
    {<<>>, <<0>>, <<114>>}
    \cup {<<b0, b1>> \o t : b0 \in {0, 86, 114}, b1 \in {0, 86, 114},
                             t \in {<<>>, <<1, 64, 16, 16, 0, 0>>}}

\* Inputs for a segment of one command: a header (Reduced coordinates,
\* scale 1, no colors), the start point, every tag byte, and up to eight
\* bytes after it.
SegmentHeader == <<114, 86, 1, 65, 16, 16, 0>>

SegmentBodies ==
    {<<200, 1, 2, 3, 4, 5, 6, 7>>, <<5, 128, 9, 10, 11, 12, 13, 14>>}

SegmentInputs ==
    {SegmentHeader \o <<2, 4>> \o <<tag>> \o SubSeq(b, 1, n) :
        tag \in 0..255, b \in SegmentBodies, n \in 0..8}

ReaderInputs ==
    {ReaderInput(b, d, u) : b \in UnitFlags, d \in Dimensions, u \in UnitTails}
    \cup MagicInputs

(***************************************************************************)
(* Specifications                                                          *)
(***************************************************************************)
InitWith(ins, at) ==
    /\ input \in ins
    /\ build \in Builds
    /\ bytes_read = 0
    /\ parser = NewParser
    /\ file = None
    /\ pc = at
    /\ result = [st |-> "none"]
    /\ command_at = <<>>
    /\ helper = NoHelper

\* Parser::new(reader), then parse_header and parse_commands (parse).
Init == InitWith(Inputs, "new")

Next == ParseHeader \/ ParseCommand \/ EndOfCommands

Spec == Init /\ [][Next]_vars

\* parse runs to its return: a call in progress takes its next step.
SpecLive == Init /\ [][Next]_vars /\ WF_vars(Next)

\* parse_header alone, over every flags byte.
InitHeader == InitWith(HeaderInputs, "new")

NextHeader == ParseHeader

SpecHeader == InitHeader /\ [][NextHeader]_vars

\* read_var_uint alone, on a fresh parser.
ReadVarUint ==
    /\ pc = "varint"
    /\ \E r \in {read_var_uint(Self, bytes_read)} :
           /\ bytes_read' = r.pos
           /\ result' = r
    /\ pc' = "returned"
    /\ UNCHANGED <<input, build, parser, file, command_at, helper>>

InitVarint == InitWith(VarintInputs, "varint")

NextVarint == ReadVarUint

SpecVarint == InitVarint /\ [][NextVarint]_vars

\* read_unit alone, on a parser that has read a header.
ReadUnit ==
    /\ pc = "header_done"
    /\ \E r \in {read_unit(Self, bytes_read)} :
           /\ bytes_read' = r.pos
           /\ result' = r
    /\ pc' = "unit_read"
    /\ UNCHANGED <<input, build, parser, file, command_at, helper>>

\* segment(1) alone, on a parser that has read a header.
ReadSegment ==
    /\ pc = "header_done"
    /\ \E r \in {segment(Self, bytes_read, BitsOf(1))} :
           /\ bytes_read' = r.pos
           /\ result' = r
    /\ pc' = "segment_read"
    /\ UNCHANGED <<input, build, parser, file, command_at, helper>>

InitSegment == InitWith(SegmentInputs, "new")

NextSegment == ParseHeader \/ ReadSegment

SpecSegment == InitSegment /\ [][NextSegment]_vars

\* `File::open(&in_path)?` fails: the helper returns before any decoding.
OpenFails ==
    /\ pc = "new"
    /\ helper.at = "decoding"
    /\ pc' = "open_failed"
    /\ helper' = [helper EXCEPT !.at = "returned",
                                !.ret = HelperErr("open", "io")]
    /\ UNCHANGED <<input, build, bytes_read, parser, file, result, command_at>>

\* `decoder.decode_header()?` has failed: the helper returns the error.
ReturnHeaderError ==
    /\ pc = "header_failed"
    /\ helper.at = "decoding"
    /\ helper' = [helper EXCEPT !.at = "returned",
                                !.ret = HelperErr("decode_header", result.error)]
    /\ UNCHANGED <<input, build, bytes_read, parser, file, pc, result, command_at>>

\* The helper that returns the error of decode_commands at once.
CreateOutputUnlessFailed ==
    /\ pc \in {"done", "commands_failed"}
    /\ helper.at = "decoding"
    /\ IF pc = "commands_failed"
       THEN helper' = [helper EXCEPT !.at = "returned",
                         !.ret = HelperErr("decode_commands", result.error)]
       ELSE \E created \in BOOLEAN :
              helper' = IF created
                        THEN [helper EXCEPT !.at = "created", !.out = "empty"]
                        ELSE [helper EXCEPT !.at = "returned",
                                !.ret = HelperErr("create",
                                          <<"failed to create output file", "io">>)]
    /\ UNCHANGED <<input, build, bytes_read, parser, file, pc, result, command_at>>

\* decode_commands has returned, Ok or Err: `File::create(out_path)`, which
\* creates the output file or fails.
CreateOutput ==
    /\ pc \in {"done", "commands_failed"}
    /\ helper.at = "decoding"
    /\ \E created \in BOOLEAN :
           helper' = IF created
                     THEN [helper EXCEPT !.at = "created", !.out = "empty"]
                     ELSE [helper EXCEPT !.at = "returned",
                             !.ret = HelperErr("create",
                                       <<"failed to create output file", "io">>)]
    /\ UNCHANGED <<input, build, bytes_read, parser, file, pc, result, command_at>>

\* `image.render_png(&mut file)?` on the image as decode_commands left it.
RenderPng ==
    /\ helper.at = "created"
    /\ \E io \in IoOutcomes : \E r \in {render(file, io)} :
           helper' =
               [at |-> CASE r.st = "ok" -> "rendered"
                         [] r.st = "err" -> "returned"
                         [] r.st = "panic" -> "panicked",
                out |-> IF r.png # None THEN "written" ELSE helper.out,
                png |-> r.png,
                ret |-> IF r.st = "err" THEN HelperErr("render_png", r.val)
                        ELSE None]
    /\ UNCHANGED <<input, build, bytes_read, parser, file, pc, result, command_at>>

\* `result?; Ok(())`: the error of decode_commands, if any, is returned
\* now; the writer is dropped with the output in the file.
ReturnResult ==
    /\ helper.at = "rendered"
    /\ helper' = [helper EXCEPT !.at = "returned",
                     !.ret = IF pc = "commands_failed"
                             THEN HelperErr("decode_commands", result.error)
                             ELSE Some([st |-> "ok"])]
    /\ UNCHANGED <<input, build, bytes_read, parser, file, pc, result, command_at>>

\* render_helper::render on every input.
NextRender ==
    \/ OpenFails
    \/ ParseHeader
    \/ ParseCommand
    \/ EndOfCommands
    \/ ReturnHeaderError
    \/ CreateOutput
    \/ RenderPng
    \/ ReturnResult

SpecRender == Init /\ [][NextRender]_vars

InitReaders == InitWith(ReaderInputs, "new")

NextReaders == ParseHeader \/ ReadUnit

SpecReaders == InitReaders /\ [][NextReaders]_vars

(***************************************************************************)
(* Properties                                                              *)
(***************************************************************************)
\* The command index of the byte at position p (the byte after p bytes).
IndexAt(p) == input[p + 1] % 64

\* The position of the last call of command().
LastCommandAt == command_at[Len(command_at)]

\* `c < n` for a u32 c and a natural n.
U32Lt(c, n) == 31 \notin c /\ ToNat(c) < n

\* The styles of a command: fill style, line style, outline line style.
StylesOf(c) ==
    (IF "fill_style" \in DOMAIN c THEN {c.fill_style} ELSE {})
    \cup (IF "line_style" \in DOMAIN c THEN {c.line_style} ELSE {})
    \cup (IF "outline" \in DOMAIN c
          THEN {c.outline[k].line_style : k \in 1..Len(c.outline)} ELSE {})

\* The color indices of a style.
IndicesOf(st) ==
    IF st.style = "FlatColor" THEN {st.color_index}
    ELSE {st.color_index_0, st.color_index_1}

\* The segments of the path of a command (none if it has no path).
SegmentsOf(c) ==
    IF "path" \in DOMAIN c THEN {c.path[k] : k \in 1..Len(c.path)} ELSE {}

Parsed == pc \in {"header_done", "commands", "done"}

\* C1: after a successful parse the trailer is exactly the input after the
\* first command byte with command index 0, the commands are those decoded
\* before that byte, in wire order, and every input byte has been consumed.
C1_TrailerAfterSentinel ==
    pc = "done" =>
        /\ Len(command_at) >= 1
        /\ IndexAt(LastCommandAt) = 0
        /\ \A i \in 1..(Len(command_at) - 1) :
               /\ command_at[i] < LastCommandAt
               /\ IndexAt(command_at[i]) # 0
               /\ file.commands[i].wire.index = IndexAt(command_at[i])
        /\ Len(file.commands) = Len(command_at) - 1
        /\ file.trailer = SubSeq(input, LastCommandAt + 2, Len(input))
        /\ bytes_read = Len(input)

\* A parse of two commands whose trailer holds bytes that read as commands.
C1_Witness ==
    pc = "done" /\ Len(file.commands) = 2 /\ file.trailer = <<1, 0>>

\* C2: every command byte with command index 0, whatever its primary style
\* bits, ends the command stream without error, and only that byte is read
\* before the trailer.
C2_SentinelAnyStyle ==
    \A i \in 1..Len(command_at) :
        (command_at[i] < Len(input) /\ IndexAt(command_at[i]) = 0) =>
            /\ pc = "done"
            /\ i = Len(command_at)
            /\ Len(file.trailer) = Len(input) - command_at[i] - 1

\* C3: in a parsed image every color index of every style is less than the
\* length of the color table.
C3_ColorIndexInRange ==
    Parsed =>
        \A k \in 1..Len(file.commands) :
            \A st \in StylesOf(file.commands[k]) :
                \A c \in IndicesOf(st) : U32Lt(c, Len(file.color_table))

\* C4: every segment of every parsed path holds exactly as many segment
\* commands as its length varint plus 1.
C4_SegmentLengths ==
    Parsed =>
        \A k \in 1..Len(file.commands) :
            \A sg \in SegmentsOf(file.commands[k]) :
                /\ sg.length_varint # 0..31
                /\ BitsOf(Len(sg.commands)) = WrappingInc(sg.length_varint)

\* The bytes of one color under an encoding.
ColorSize(color_encoding) ==
    CASE color_encoding = "Rgba8888" -> 4
      [] color_encoding = "Rgb565" -> 2
      [] color_encoding = "RgbaF32" -> 16

\* In a header input, the position after the color count: magic, version,
\* flags, width, height and a one-byte count.
ColorsStart(coordinate_range) == 5 + 2 * RangeBytes(coordinate_range)

\* C5: when parse_header succeeds, the color table has exactly as many
\* entries as the color count of the input (the byte input[5] of a header
\* input), which is header.color_count, and the input held all their bytes.
C5_ColorTableLength ==
    pc = "header_done" =>
        /\ Len(file.color_table) = input[5]
        /\ file.header.color_count = BitsOf(input[5])
        /\ Len(input) >= ColorsStart(file.header.coordinate_range)
                         + input[5] * ColorSize(file.header.color_encoding)

C5_Witness ==
    /\ pc = "header_done"
    /\ Len(file.color_table) = 2
    /\ file.header.color_encoding = "RgbaF32"

IsPrefix(s, t) == Len(s) <= Len(t) /\ SubSeq(t, 1, Len(s)) = s

\* C6: fed the encoding e[2] of a value e[1], the varint reader returns the
\* value and consumes exactly the bytes of the encoding.
C6_VarintRoundTrip ==
    pc = "returned" =>
        \A e \in Encodings :
            IsPrefix(e[2], input) =>
                /\ result.st = "ok"
                /\ result.val = e[1]
                /\ result.pos = Len(e[2])

\* A five-byte encoding of a value with bit 31 set, read back.
C6_Witness ==
    /\ pc = "returned"
    /\ result.st = "ok"
    /\ 31 \in result.val
    /\ <<result.val, SubSeq(input, 1, 5)>> \in Encodings
    /\ Len(input) = 6
    /\ result.pos = 5

\* The input starts with a varint that does not fit in 32 bits: more than
\* five bytes, or a fifth group with one of its bits 4..6 set.
Overflows ==
    /\ Len(input) >= 5
    /\ \A k \in 1..4 : input[k] >= 128
    /\ \/ (input[5] % 128) \div 16 # 0
       \/ input[5] >= 128 /\ Len(input) >= 6

\* C7: the varint reader returns an error for every varint that does not
\* fit in 32 bits.
C7_VarintOverflowRejected ==
    (pc = "returned" /\ Overflows) => result.st = "err"

\* C8: no input makes the parser panic.
C8_NoPanic == pc # "panicked"

\* The color count of a header input was read: the header was parsed.
HeaderWasRead ==
    \/ pc = "header_done"
    \/ pc = "header_failed" /\ result.error[1] = "error parsing color table"

\* C9: a color count that exceeds the number of bytes left in the input is
\* rejected before any color is read.
C9_CountCapped ==
    (HeaderWasRead
     /\ input[5] > Len(input) - ColorsStart(parser.coordinate_range)) =>
        /\ pc = "header_failed"
        /\ bytes_read = ColorsStart(parser.coordinate_range)

\* The values of the two-bit fields of the flags byte.
EncodingCode(color_encoding) ==
    CASE color_encoding = "Rgba8888" -> 0
      [] color_encoding = "Rgb565" -> 1
      [] color_encoding = "RgbaF32" -> 2

RangeCode(coordinate_range) ==
    CASE coordinate_range = "Default" -> 0
      [] coordinate_range = "Reduced" -> 1
      [] coordinate_range = "Enhanced" -> 2

\* C10, as amended: the header reader takes scale from the low 4 bits of
\* the flags byte, color_encoding from bits 5..4 and coordinate_range from
\* the high 2 bits.
C10_FlagsLayout ==
    pc = "header_done" =>
        /\ file.header.scale = input[4] % 16
        /\ EncodingCode(file.header.color_encoding) = (input[4] \div 16) % 4
        /\ RangeCode(file.header.coordinate_range) = (input[4] \div 64) % 4

\* The flags byte 0x82: Enhanced coordinates, Rgba8888, scale 2.
C10_Witness ==
    /\ pc = "header_done"
    /\ input[4] = 130
    /\ file.header.scale = 2
    /\ file.header.coordinate_range = "Enhanced"

\* C10 as stated: scale from the high 4 bits, color_encoding from bits
\* 3..2, coordinate_range from the low 2 bits.
C10_HighNibbleScale ==
    pc = "header_done" =>
        /\ file.header.scale = (input[4] \div 16) % 16
        /\ EncodingCode(file.header.color_encoding) = (input[4] \div 4) % 4
        /\ RangeCode(file.header.coordinate_range) = input[4] % 4

\* parse (parse_header, then parse_commands) has returned or aborted.
Returned == pc \in {"done", "header_failed", "commands_failed", "panicked"}

\* C11, as amended: parsing 72 56 01 40 10 10 00 00 succeeds and yields a
\* header with version 1, scale 0, Rgba8888, coordinate range Reduced, width
\* 16, height 16 and color_count 0, an empty color table, no commands and
\* an empty trailer.
C11_ScenarioA ==
    (input = ScenarioA /\ Returned) =>
        /\ pc = "done"
        /\ file.header = [version |-> 1, scale |-> 0,
                          color_encoding |-> "Rgba8888",
                          coordinate_range |-> "Reduced",
                          width |-> BitsOf(16), height |-> BitsOf(16),
                          color_count |-> {}]
        /\ file.color_table = <<>>
        /\ file.commands = <<>>
        /\ file.trailer = <<>>

C11_Witness == input = ScenarioA /\ pc = "done" /\ bytes_read = 8

\* C11 as stated: the same with scale 4 and coordinate range Default.
C11_ScenarioAScale4Default ==
    (input = ScenarioA /\ Returned) =>
        /\ pc = "done"
        /\ file.header = [version |-> 1, scale |-> 4,
                          color_encoding |-> "Rgba8888",
                          coordinate_range |-> "Default",
                          width |-> BitsOf(16), height |-> BitsOf(16),
                          color_count |-> {}]
        /\ file.color_table = <<>>
        /\ file.commands = <<>>
        /\ file.trailer = <<>>

\* The end-of-file error of a reader inside command(), as parse_commands
\* returns it after n bytes.
CommandEof(n) ==
    ParseCommandsError(<<"error parsing command", "failed to fill whole buffer">>, n)

\* The header and the color table of the 21-byte image as the code reads
\* them: flags 0x42 is scale 2, Rgba8888, Reduced.
ScenarioBHeader ==
    [version |-> 1, scale |-> 2, color_encoding |-> "Rgba8888",
     coordinate_range |-> "Reduced",
     width |-> BitsOf(32), height |-> BitsOf(32), color_count |-> BitsOf(1)]

ScenarioBColors == <<[enc |-> "rgba8", ch |-> <<255, 0, 0, 255>>]>>

\* C12, as amended: parsing the 21 bytes yields scale 2, Rgba8888, Reduced,
\* width 32, height 32 and one color (1, 0, 0, 1), and then fails: the
\* command byte 0x42 is FillRectangles under a LinearGradient fill style,
\* and the input ends inside its first rectangle, after all 21 bytes, with
\* no command produced.
C12_ScenarioB ==
    (input = ScenarioB /\ Returned) =>
        /\ pc = "commands_failed"
        /\ file.header = ScenarioBHeader
        /\ file.color_table = ScenarioBColors
        /\ file.commands = <<>>
        /\ file.trailer = <<>>
        /\ bytes_read = 21
        /\ result.error = CommandEof(21)

C12_Witness ==
    input = ScenarioB /\ pc = "commands_failed" /\ command_at = <<11>>

\* C12 as stated: the parse succeeds with scale 4, Default, and one
\* FillRectangles command with flat color 0, the rectangle (0, 0, 2, 2) and
\* no outline.
C12_ScenarioBOneRectangle ==
    (input = ScenarioB /\ Returned) =>
        /\ pc = "done"
        /\ file.header = [ScenarioBHeader EXCEPT !.scale = 4,
                                                 !.coordinate_range = "Default"]
        /\ file.color_table = ScenarioBColors
        /\ Len(file.commands) = 1
        /\ file.commands[1].cmd = "FillRectangles"
        /\ file.commands[1].fill_style =
               [style |-> "FlatColor", color_index |-> {}]
        /\ file.commands[1].items =
               <<[x |-> F64Ratio({}, 0), y |-> F64Ratio({}, 0),
                  width |-> F64Ratio(BitsOf(2), 0),
                  height |-> F64Ratio(BitsOf(2), 0)]>>
        /\ file.commands[1].outline = None

\* The input has a whole header with color count 0 (a header of the unit
\* inputs): flags, width and height of the size the flags byte gives, and
\* a zero byte.
HasPlainHeader ==
    /\ Len(input) >= 4
    /\ SubSeq(input, 1, 2) = <<114, 86>>
    /\ FlagBytes(input[4]) > 0
    /\ Len(input) >= 5 + 2 * FlagBytes(input[4])
    /\ input[5 + 2 * FlagBytes(input[4])] = 0

\* C13: width and height are each read from 2 bytes under Default, 1 under
\* Reduced and 4 under Enhanced, the coordinate range being that of the
\* flags byte of the same header, and are the little-endian values of those
\* bytes; the color count is read right after them.
C13_WidthHeightByRange ==
    (pc = "header_done" /\ HasPlainHeader) =>
        /\ RangeBytes(file.header.coordinate_range) = FlagBytes(input[4])
        /\ file.header.width =
               LittleEndian(SubSeq(input, 5, 4 + FlagBytes(input[4])))
        /\ file.header.height =
               LittleEndian(SubSeq(input, 5 + FlagBytes(input[4]),
                                   4 + 2 * FlagBytes(input[4])))
        /\ file.header.color_count = {}
        /\ bytes_read = 5 + 2 * FlagBytes(input[4])

\* A header of one-byte coordinates, and one of four-byte coordinates with
\* the top bit of the height set.
C13_Witness ==
    /\ pc = "header_done"
    /\ \/ /\ file.header.coordinate_range = "Reduced"
          /\ file.header.width = BitsOf(1)
          /\ file.header.height = BitsOf(32)
          /\ bytes_read = 7
       \/ /\ file.header.coordinate_range = "Enhanced"
          /\ 31 \in file.header.height
          /\ bytes_read = 13

\* The position at which the unit was read, and its bytes as a u32.
UnitStart == 5 + 2 * FlagBytes(input[4])

UnitRaw ==
    LittleEndian(SubSeq(input, UnitStart + 1,
                        UnitStart + RangeBytes(file.header.coordinate_range)))

\* C14: the unit reader returns raw / 2^scale under the scale of the parsed
\* header: the value returned, m / 2^e, times 2^scale is the raw integer,
\* and the bytes of one coordinate have been consumed.
C14_UnitTimesScale ==
    (pc = "unit_read" /\ HasPlainHeader /\ result.st = "ok") =>
        /\ result.val.e <= file.header.scale
        /\ Shl(result.val.m, file.header.scale - result.val.e) = UnitRaw
        /\ ~result.val.neg
        /\ result.pos = UnitStart + RangeBytes(file.header.coordinate_range)

\* Raw 0x1000 under scale 15: the unit 1/8.
C14_Witness ==
    /\ pc = "unit_read"
    /\ result.st = "ok"
    /\ file.header.scale = 15
    /\ file.header.coordinate_range = "Default"
    /\ result.val = [neg |-> FALSE, m |-> {0}, e |-> 3]

\* The value of raw, an integer of n bytes, read as two's complement, over
\* 2^scale.
SignedRatio(raw, n, scale) ==
    IF (8 * n - 1) \in raw
    THEN [F64Ratio(WrappingInc((0..(8 * n - 1)) \ raw), scale) EXCEPT !.neg = TRUE]
    ELSE F64Ratio(raw, scale)

\* C15: the unit reader reads the raw integer as a two's-complement signed
\* integer of its width before it divides by 2^scale.
C15_UnitSigned ==
    (pc = "unit_read" /\ HasPlainHeader /\ result.st = "ok") =>
        result.val = SignedRatio(UnitRaw,
                                 RangeBytes(file.header.coordinate_range),
                                 file.header.scale)

MagicError ==
    <<"error parsing header", "tinyvg file must begin with magic number 0x72 0x56">>

\* C16: parse_header fails with the magic number error on every input whose
\* first two bytes are not 0x72 0x56, with those two bytes consumed and no
\* image returned, and on no input that starts with 0x72 0x56.
C16_BadMagic ==
    (pc # "new" /\ Len(input) >= 2) =>
        IF SubSeq(input, 1, 2) # <<114, 86>>
        THEN /\ pc = "header_failed"
             /\ result.error = MagicError
             /\ bytes_read = 2
             /\ file = None
        ELSE ~(pc = "header_failed" /\ result.error = MagicError)

\* The first byte right and the second wrong, before a whole header.
C16_Witness ==
    /\ pc = "header_failed"
    /\ Len(input) = 8
    /\ input[1] = 114
    /\ input[2] = 0
    /\ bytes_read = 2

\* The number of bytes of a color under the flags byte b.
FlagColorSize(b) ==
    CASE (b \div 16) % 4 = 0 -> 4
      [] (b \div 16) % 4 = 1 -> 2
      [] (b \div 16) % 4 = 2 -> 16
      [] OTHER -> 0

\* C17: a successful parse_header returns an image with no commands and an
\* empty trailer and has consumed the magic number, the version, the flags
\* byte, width, height, the color count (one byte in a header input) and
\* the colors, and nothing more.
C17_HeaderStopsAtCommands ==
    pc = "header_done" =>
        /\ file.commands = <<>>
        /\ file.trailer = <<>>
        /\ bytes_read = 4 + 2 * FlagBytes(input[4]) + 1
                         + input[5] * FlagColorSize(input[4])

\* Two Rgb565 colors read, with bytes left in the source.
C17_Witness ==
    /\ pc = "header_done"
    /\ Len(file.color_table) = 2
    /\ file.header.color_encoding = "Rgb565"
    /\ bytes_read < Len(input)

\* A step of parse_commands leaves the header and the color table as they
\* were; a step in which it fails leaves the whole image as it was, with
\* one command for each call of command() before the one that failed.
FailureKeepsCommands ==
    pc \in {"header_done", "commands"} =>
        /\ file'.header = file.header
        /\ file'.color_table = file.color_table
        /\ pc' = "commands_failed" =>
               /\ file' = file
               /\ file'.trailer = <<>>
               /\ Len(file'.commands) = Len(command_at') - 1
               /\ \A i \in 1..Len(file'.commands) :
                      file'.commands[i].wire.index = IndexAt(command_at'[i])

\* C18: when parse_commands fails while decoding the k-th command, the
\* image of the caller has its header and color table unchanged, the k-1
\* commands decoded before the fault, in wire order, and an empty trailer;
\* nothing of the command that failed is appended.
C18_FailureKeepsCommands == [][FailureKeepsCommands]_vars

\* The second command fails after some of its bytes have been read.
C18_Witness ==
    /\ pc = "commands_failed"
    /\ Len(command_at) = 2
    /\ Len(file.commands) = 1
    /\ bytes_read > command_at[2] + 1

\* C19: every error parse_header and parse_commands return carries the
\* number of bytes read at the failure.
C19_ErrorsCarryBytesRead ==
    pc \in {"header_failed", "commands_failed"} =>
        /\ result.error[1] = "parsing failed after reading"
        /\ result.error[2] = bytes_read

\* The style variant of the two high bits of the byte at position p.
VariantAt(p) ==
    CASE input[p + 1] \div 64 = 0 -> "FlatColor"
      [] input[p + 1] \div 64 = 1 -> "LinearGradient"
      [] input[p + 1] \div 64 = 2 -> "RadialGradient"
      [] OTHER -> "none"

\* The outline of the command read at position p is Some(OutlineStyle) with
\* the line style of the u2 of the second byte and, when both styles are
\* flat colors of one byte, the color index and the line width that follow.
OutlineDecoded(c, p) ==
    /\ Len(c.outline) = 1
    /\ c.outline[1].line_style.style = VariantAt(p + 1)
    /\ (VariantAt(p) = "FlatColor" /\ VariantAt(p + 1) = "FlatColor") =>
           /\ c.outline[1].line_style.color_index = BitsOf(input[p + 4])
           /\ c.outline[1].line_width =
                  F64Ratio(BitsOf(input[p + 5]), file.header.scale)

\* C20: wire command 5 becomes a DrawLineLoop with close_path set and wire
\* command 6 one with close_path clear; wire commands 1, 2 and 3 have no
\* outline and wire commands 8, 9 and 10 have Some(OutlineStyle) with the
\* decoded line style and line width.
C20_ClosePathAndOutline ==
    pc \in {"commands", "done", "commands_failed"} =>
        \A k \in 1..Len(file.commands) :
            /\ IndexAt(command_at[k]) = 5 =>
                   /\ file.commands[k].cmd = "DrawLineLoop"
                   /\ file.commands[k].close_path
            /\ IndexAt(command_at[k]) = 6 =>
                   /\ file.commands[k].cmd = "DrawLineLoop"
                   /\ ~file.commands[k].close_path
            /\ IndexAt(command_at[k]) \in {1, 2, 3} =>
                   file.commands[k].outline = None
            /\ IndexAt(command_at[k]) \in {8, 9, 10} =>
                   OutlineDecoded(file.commands[k], command_at[k])

\* A loop, then a strip; an outline with a gradient line style.
C20_Witness ==
    /\ pc = "done"
    /\ \/ /\ Len(file.commands) = 2
          /\ IndexAt(command_at[1]) = 5
          /\ IndexAt(command_at[2]) = 6
       \/ /\ Len(file.commands) = 1
          /\ IndexAt(command_at[1]) = 9
          /\ file.commands[1].outline[1].line_style.style = "LinearGradient"

\* Commands are held by the image: parse_commands has taken a step.
HasCommands == pc \in {"commands", "done", "commands_failed"}

\* The u6 of the byte that follows the command byte at position p.
CountU6At(p) == input[p + 2] % 64

\* C21: the path of a wire command 10 has u6 + 1 segments, u6 being the
\* low 6 bits of the byte after the command byte.
C21_OutlinePathSegments ==
    HasCommands =>
        \A k \in 1..Len(file.commands) :
            IndexAt(command_at[k]) = 10 =>
                Len(file.commands[k].path) = CountU6At(command_at[k]) + 1

\* The list has varint + 1 entries, varint being the count prefix read
\* for the command c (2^32 entries for the varint 2^32 - 1 are none).
CountsVarintPlusOne(c, list) ==
    /\ c.wire.count # 0..31
    /\ BitsOf(Len(list)) = WrappingInc(c.wire.count)

\* C22: wire commands 1, 2, 4, 5 and 6 have varint + 1 items and wire
\* commands 3 and 7 a path of varint + 1 segments, for every count varint
\* of a parse that succeeds; wire commands 8 and 9 have u6 + 1 items.
C22_ItemCounts ==
    HasCommands =>
        \A k \in 1..Len(file.commands) :
            /\ IndexAt(command_at[k]) \in {1, 2, 4, 5, 6} =>
                   CountsVarintPlusOne(file.commands[k], file.commands[k].items)
            /\ IndexAt(command_at[k]) \in {3, 7} =>
                   CountsVarintPlusOne(file.commands[k], file.commands[k].path)
            /\ IndexAt(command_at[k]) \in {8, 9} =>
                   Len(file.commands[k].items) = CountU6At(command_at[k]) + 1

\* C27: in a parsed image every FillPolygon and every DrawLineLoop has at
\* least one point and every path at least one segment.
C27_NothingEmpty ==
    pc = "done" =>
        \A k \in 1..Len(file.commands) :
            /\ file.commands[k].cmd \in {"FillPolygon", "DrawLineLoop"} =>
                   Len(file.commands[k].items) >= 1
            /\ "path" \in DOMAIN file.commands[k] =>
                   Len(file.commands[k].path) >= 1

\* parse_header has failed on the flags byte, the fourth byte.
FlagsRejected ==
    /\ pc = "header_failed"
    /\ bytes_read = 4
    /\ result.error[1] = "error parsing header"
    /\ result.error[2] \in {"custom color encodings are not supported",
                             "unrecognized coordinate type"}

\* The header input has all its bytes.
WholeHeaderInput == Len(input) = 13 + 16 * MaxColors

\* C23, as amended: the header reader rejects a flags byte exactly when
\* its color_encoding field (bits 5..4) is 3 or its coordinate_range field
\* (the two high bits) is 3; every other flags byte is accepted and mapped
\* to a color encoding and a coordinate range.
C23_FlagsRejected ==
    (pc # "new" /\ Len(input) >= 4) =>
        /\ FlagsRejected <=>
               ((input[4] \div 16) % 4 = 3 \/ (input[4] \div 64) % 4 = 3)
        /\ (~FlagsRejected /\ WholeHeaderInput) =>
               /\ pc = "header_done"
               /\ EncodingCode(file.header.color_encoding) = (input[4] \div 16) % 4
               /\ RangeCode(file.header.coordinate_range) = (input[4] \div 64) % 4

\* The flags byte 0xC0 (coordinate range 3, Rgba8888) is rejected.
C23_Witness ==
    /\ FlagsRejected
    /\ input[4] = 192
    /\ WholeHeaderInput

\* C23 as stated: a flags byte is rejected exactly when its color_encoding
\* field is 3.
C23_OnlyCustomRejected ==
    (pc # "new" /\ Len(input) >= 4) =>
        /\ FlagsRejected <=> (input[4] \div 16) % 4 = 3
        /\ (~FlagsRejected /\ WholeHeaderInput) => pc = "header_done"

\* A step of parse_commands ends in success only by reading a command byte
\* with command index 0; at the end of the input it ends in an error; and
\* an error leaves the trailer empty.
EndsOnlyAtSentinel ==
    pc \in {"header_done", "commands"} =>
        /\ pc' = "done" =>
               /\ bytes_read < Len(input)
               /\ IndexAt(bytes_read) = 0
        /\ bytes_read = Len(input) => pc' = "commands_failed"
        /\ pc' = "commands_failed" => file'.trailer = <<>>

\* C24: an input that ends before a command byte with command index 0 has
\* been read never yields a successful parse: parse_commands returns an
\* error when the input runs out at a command boundary or inside a command,
\* and the trailer stays empty.
C24_NoSentinelNoSuccess == [][EndsOnlyAtSentinel]_vars

\* The input ran out at the boundary after one command, and inside the
\* second command.
C24_Witness ==
    /\ pc = "commands_failed"
    /\ bytes_read = Len(input)
    /\ Len(file.commands) = 1
    /\ command_at[2] \in {Len(input), Len(input) - 3}

\* The tag byte of a segment input, after the header and the start point.
TagAt == Len(SegmentHeader) + 3

\* 1 if the tag byte has bit 3 (0x08) set, else 0.
TagWidthBytes == (input[TagAt] \div 8) % 2

\* The instruction names by the low 3 bits of the tag byte, and the units
\* of the body of each.
InstructionNames ==
    <<"Line", "HorizontalLine", "VerticalLine", "CubicBezier",
      "ArcCircle", "ArcEllipse", "ClosePath", "QuadraticBezier">>

InstructionUnits == <<2, 1, 1, 6, 3, 5, 0, 4>>

TagInstruction == (input[TagAt] % 8) + 1

\* 1 for the two arcs, whose body starts with a byte of flags, else 0.
TagArcBytes == IF TagInstruction \in {5, 6} THEN 1 ELSE 0

\* The position after the tag byte, the line width and the flags of an arc.
BodyAt == TagAt + TagWidthBytes + TagArcBytes

\* The unit of the one byte at position p (the byte p of the input).
UnitOfByte(p) == F64Ratio(BitsOf(input[p]), file.header.scale)

\* C25: the instruction of a segment command is the low 3 bits of its tag
\* byte, the line width is present exactly when bit 3 is set and is the
\* unit right after the tag byte, the body follows it, and bits 4..7 of the
\* tag byte change nothing.
C25_SegmentTag ==
    pc = "segment_read" =>
        /\ result.st = "ok" <=>
               Len(input) >= BodyAt + InstructionUnits[TagInstruction]
        /\ result.st = "ok" =>
               /\ Len(result.val.commands) = 1
               /\ result.val.commands[1].kind.kind = InstructionNames[TagInstruction]
               /\ result.val.commands[1].line_width =
                      (IF TagWidthBytes = 1 THEN Some(UnitOfByte(TagAt + 1)) ELSE None)
               /\ result.val.commands[1].kind.body =
                      [j \in 1..InstructionUnits[TagInstruction] |->
                          UnitOfByte(BodyAt + j)]
               /\ result.pos = BodyAt + InstructionUnits[TagInstruction]

\* The tag byte 0xFB: a CubicBezier with a line width, bits 4..7 set.
C25_Witness ==
    /\ pc = "segment_read"
    /\ result.st = "ok"
    /\ input[TagAt] = 251
    /\ result.val.commands[1].kind.kind = "CubicBezier"
    /\ Len(result.val.commands[1].line_width) = 1
    /\ result.pos = TagAt + 7

\* A step of the parse never moves bytes_read back or past the end of the
\* input, and a step that decodes a command or the end of the commands
\* reads at least one byte.
Consumes ==
    /\ bytes_read' >= bytes_read
    /\ bytes_read' <= Len(input)
    /\ pc' \in {"commands", "done"} => bytes_read' > bytes_read

\* The error at the root of a failure of parse_header or parse_commands.
RootCause ==
    IF pc = "commands_failed" THEN result.error[3][2] ELSE result.error[2]

\* bytes_read counts the bytes taken from the input: all of them when a
\* read met the end of the input and when the trailer has been drained,
\* and the trailer is what follows the byte that ended the commands.
Counted ==
    /\ bytes_read \in 0..Len(input)
    /\ (pc \in {"header_failed", "commands_failed"}
           /\ RootCause = "failed to fill whole buffer")
          => bytes_read = Len(input)
    /\ pc = "done" =>
          /\ bytes_read = Len(input)
          /\ file.trailer =
                 SubSeq(input, command_at[Len(command_at)] + 2, Len(input))
          /\ \A i \in 1..(Len(command_at) - 1) :
                 command_at[i] < command_at[i + 1]

\* C26: on every input the parse returns, and while it runs bytes_read
\* never decreases and is the number of input bytes consumed: no byte is
\* read twice or handed to two readers.
C26_TerminatesCounting == [][Consumes]_vars /\ []Counted /\ <>Returned

\* Two commands, then the end of the commands and a trailer.
C26_Witness ==
    /\ pc = "done"
    /\ Len(file.commands) = 2
    /\ file.trailer # <<>>
    /\ bytes_read = Len(input)
    /\ command_at[3] + 1 < bytes_read

\* The helper has returned r to its caller.
HelperReturned(r) == helper.at = "returned" /\ helper.ret = Some(r)

\* C28: the render helper returns a header error without creating an
\* output file, creates the output only after decode_commands has
\* returned, returns an error of decode_commands only after the image
\* decoded so far has been rendered and written, and returns Ok only if
\* decoding and rendering succeeded.
C28_RenderOrder ==
    /\ pc \in {"new", "header_done", "commands", "header_failed",
               "open_failed", "panicked"}
          => helper.out = "none"
    /\ (pc = "header_failed" /\ helper.at = "returned")
          => helper.ret = HelperErr("decode_header", result.error)
    /\ (pc = "commands_failed" /\ helper.at = "returned"
           /\ helper.ret[1].from = "decode_commands")
          => /\ helper.ret = HelperErr("decode_commands", result.error)
             /\ helper.out = "written"
             /\ helper.png = Some(Drawn(file, Len(file.commands)))
    /\ (pc = "commands_failed" /\ helper.at = "returned")
          => helper.ret[1].st = "err"
    /\ HelperReturned([st |-> "ok"])
          => /\ pc = "done"
             /\ helper.out = "written"
             /\ helper.png = Some(Drawn(file, Len(file.commands)))

\* The second command fails to decode; the first is in the output and
\* the error of decode_commands is returned.
C28_Witness ==
    /\ pc = "commands_failed"
    /\ helper.at = "returned"
    /\ helper.ret[1].from = "decode_commands"
    /\ helper.out = "written"
    /\ Len(helper.png[1].commands) = 1

====
